---- MODULE Spec2Model ----
(***************************************************************************)
(* A model of airbnb-scraper.js: the DataPipeline (dedup + batched CSV     *)
(* writer), the retried search fetch scrapeSearchResults, the windowed     *)
(* fan-out of the top-level async function, and the detail crawl           *)
(* (processResults / processListing).                                      *)
(*                                                                         *)
(* JavaScript runs one callback at a time: code between two awaits is one  *)
(* atomic step, and an await hands control to any other runnable task.     *)
(* Every action below is one such step.  Strings are sequences of          *)
(* one-character strings so that trim and replace are computed.            *)
(***************************************************************************)
EXTENDS Integers, Sequences, FiniteSets, TLC

\* ---------------------------------------------------------------- constants
MAX_RETRIES == 2
MAX_SEARCH_DATA_THREADS == 2
MAX_REVIEW_DATA_THREADS == 5
PAGES == 4
\* the default of the retries parameter of processListing
DefaultRetries == 3

\* Two search terms (the source configures a list; it may hold any number).
keywordList == << <<"k", ",", " ", "s">>, <<"m">> >>

\* ------------------------------------------------------------------- bounds
\* storageQueueLimit of every DataPipeline (constructor parameter, scaled down)
QueueLimit == 2
\* most pagination anchors the first result page shows
MaxLinks == 1
\* the same where the sequencing of the windows is looked at (two windows)
MaxLinksWindows == 2
\* the same where the number of running tasks is looked at (two full windows)
MaxLinksFanOut == 3
\* most cards a result page yields
MaxCards == 2
\* most cards a listing page yields (review cards)
MaxReviewCards == 2
\* the same where the attempts of one row are looked at (a card after a flush)
MaxReviewCardsRetry == 3
\* most sink writes (fs.appendFileSync) that fail in one run
MaxSinkFaults == 1
\* most page.reload calls that fail in one run
MaxReloadFaults == 1
\* most navigations or extractions (page.goto, page.evaluate, page.$$) that fail in one run
MaxNavFaults == 3
\* longest text handed to a record constructor
MaxTextLen == 3

\* ------------------------------------------------------------------ strings
Min(a, b) == IF a < b THEN a ELSE b
Max(a, b) == IF a < b THEN b ELSE a

RECURSIVE TrimLeft(_)
TrimLeft(s) == IF s # <<>> /\ Head(s) = " " THEN TrimLeft(Tail(s)) ELSE s

RECURSIVE TrimRight(_)
TrimRight(s) ==
  IF s # <<>> /\ s[Len(s)] = " " THEN TrimRight(SubSeq(s, 1, Len(s) - 1)) ELSE s

\* String.prototype.trim
Trim(s) == TrimRight(TrimLeft(s))

\* replace(/, /g, "-") : every occurrence of comma-space becomes a hyphen
RECURSIVE ReplaceCommaSpace(_)
ReplaceCommaSpace(s) ==
  IF s = <<>> THEN <<>>
  ELSE IF Len(s) >= 2 /\ s[1] = "," /\ s[2] = " "
       THEN <<"-">> \o ReplaceCommaSpace(SubSeq(s, 3, Len(s)))
       ELSE <<Head(s)>> \o ReplaceCommaSpace(Tail(s))

\* replace(/ /g, "-") : every space becomes a hyphen
RECURSIVE ReplaceSpace(_)
ReplaceSpace(s) ==
  IF s = <<>> THEN <<>>
  ELSE <<(IF Head(s) = " " THEN "-" ELSE Head(s))>> \o ReplaceSpace(Tail(s))

CsvExt == <<".csv">>

\* the batch file of a search term
SearchFilename(keyword) == ReplaceSpace(ReplaceCommaSpace(keyword)) \o CsvExt

NoName == <<"N", "o", " ", "n", "a", "m", "e">>

\* the name field of new SearchData(name, ...): name.trim() || "No name"
SearchDataName(raw) == IF Trim(raw) = <<>> THEN NoName ELSE Trim(raw)

\* replace(/\s+/g, '-') : every run of white space becomes one hyphen
RECURSIVE ReplaceSpaceRuns(_)
ReplaceSpaceRuns(s) ==
  IF s = <<>> THEN <<>>
  ELSE IF Head(s) = " " THEN <<"-">> \o ReplaceSpaceRuns(TrimLeft(s))
       ELSE <<Head(s)>> \o ReplaceSpaceRuns(Tail(s))

\* replace(/\//g, '-') : every slash becomes a hyphen
RECURSIVE ReplaceSlash(_)
ReplaceSlash(s) ==
  IF s = <<>> THEN <<>>
  ELSE <<(IF Head(s) = "/" THEN "-" ELSE Head(s))>> \o ReplaceSlash(Tail(s))

\* the review file of a row (line 186)
ReviewFilename(name) == ReplaceSlash(ReplaceSpaceRuns(name)) \o CsvExt

\* the name field of new ReviewData(name, ...): "" becomes the placeholder,
\* any other string is trimmed (checkStringFields)
ReviewDataName(raw) == IF raw = <<>> THEN NoName ELSE Trim(raw)

\* the header line json2csv writes (the key column)
HeaderLine == <<"n", "a", "m", "e">>

\* raw name texts a listing card may carry (an absent one arrives as "")
RawNames == { <<"a", " ", "b", " ">>, <<"a", " ", "b">>, <<"a", "-", "b">> }

\* further name texts, where more than two names are needed
MoreRawNames == RawNames \cup { <<"c">>, <<"d">> }

\* texts the h3 of a review card may carry
RawReviewNames == { <<"x">>, <<"x", " ">>, <<"y">> }

Range(s) == { s[i] : i \in 1..Len(s) }

\* ----------------------------------------------------------------- Pipeline
\* fs.existsSync(filePath)
existsSync(file) == file # <<>>

\* saveToCsv that puts the header in front of every write
saveToCsvHeaderAlways(queue, file, fault) ==
  IF queue = <<>> THEN [queue |-> <<>>, file |-> file, threw |-> FALSE]
  ELSE IF fault THEN [queue |-> <<>>, file |-> file, threw |-> TRUE]
  ELSE [queue |-> <<>>, file |-> file \o <<HeaderLine>> \o queue, threw |-> FALSE]

\* saveToCsv that writes the batch without taking it out of the queue
saveToCsvKeep(queue, file, fault) ==
  IF queue = <<>> THEN [queue |-> <<>>, file |-> file, threw |-> FALSE]
  ELSE IF fault THEN [queue |-> queue, file |-> file, threw |-> TRUE]
  ELSE [queue |-> queue,
        file |-> file \o (IF existsSync(file) THEN <<>> ELSE <<HeaderLine>>) \o queue,
        threw |-> FALSE]

\* saveToCsv: the batch is spliced out first; an empty batch writes nothing;
\* otherwise the rows are appended (header first on a new file), or the append
\* throws (fault) after the batch was already taken.
saveToCsv(queue, file, fault) ==
  IF queue = <<>> THEN [queue |-> <<>>, file |-> file, threw |-> FALSE]
  ELSE IF fault THEN [queue |-> <<>>, file |-> file, threw |-> TRUE]
  ELSE [queue |-> <<>>,
        file |-> file \o (IF existsSync(file) THEN <<>> ELSE <<HeaderLine>>) \o queue,
        threw |-> FALSE]

\* isDuplicate: the has() test; the add() to namesSeen is in addData below
isDuplicateBuggy(seen, name) == FALSE
isDuplicate(seen, name) == name \in seen

\* addData with the threshold test off by one (a flush only above the limit)
addDataLate(p, file, name, fault) ==
  IF isDuplicate(p.seen, name)
  THEN [pipe |-> [p EXCEPT !.warned = TRUE], file |-> file, threw |-> FALSE]
  ELSE LET q == Append(p.queue, name)
           s == saveToCsv(q, file, fault)
       IN IF Len(q) > QueueLimit
          THEN [pipe |-> [p EXCEPT !.seen = @ \cup {name}, !.queue = s.queue],
                file |-> s.file, threw |-> s.threw]
          ELSE [pipe |-> [p EXCEPT !.seen = @ \cup {name}, !.queue = q],
                file |-> file, threw |-> FALSE]

\* addData on a pipeline p = [seen, queue, warned] writing to file: the new
\* pipeline (pipe), the new file, and whether the flush threw.  warned records
\* that the duplicate warning of line 95 was logged.
addData(p, file, name, fault) ==
  IF isDuplicate(p.seen, name)
  THEN [pipe |-> [p EXCEPT !.warned = TRUE], file |-> file, threw |-> FALSE]
  ELSE LET q == Append(p.queue, name)
           s == saveToCsv(q, file, fault)
       IN IF Len(q) >= QueueLimit
          THEN [pipe |-> [p EXCEPT !.seen = @ \cup {name}, !.queue = s.queue],
                file |-> s.file, threw |-> s.threw]
          ELSE [pipe |-> [p EXCEPT !.seen = @ \cup {name}, !.queue = q],
                file |-> file, threw |-> FALSE]

\* closePipeline
closePipeline(p, file, fault) ==
  IF Len(p.queue) > 0
  THEN LET s == saveToCsv(p.queue, file, fault)
       IN [pipe |-> [p EXCEPT !.queue = s.queue], file |-> s.file, threw |-> s.threw]
  ELSE [pipe |-> p, file |-> file, threw |-> FALSE]

\* new DataPipeline(csvFilename)
NewPipeline == [seen |-> {}, queue |-> <<>>, warned |-> FALSE]

\* -------------------------------------------------------------------- state
Terms == 1..Len(keywordList)

\* findPaginationUrls returns the first page plus at most PAGES - 1 links
MaxPages == 1 + Min(Max(MaxLinks, Max(MaxLinksWindows, MaxLinksFanOut)), PAGES - 1)

\* a search fetch task: <<term, index into pageUrls>>
SearchTasks == Terms \X (0..(MaxPages - 1))

FileOf(k) == SearchFilename(keywordList[k])

SearchFiles == { FileOf(k) : k \in Terms }

\* the names a search record can carry
Keys == { SearchDataName(raw) : raw \in MoreRawNames }

VARIABLES
  main,            \* the top-level async function: pc, term k, last term, window start i, pageUrls.length n, file index f
  browser,         \* the browser launched at line 258: "open" or "closed"
  task,            \* the scrapeSearchResults calls, by SearchTasks
  pipe,            \* dataPipeline of each term: namesSeen (seen), storageQueue (queue), warning logged (warned)
  files,           \* the file system: file name -> lines (<<>> when absent)
  aggregateFiles,  \* the batch files handed to the detail phase
  termLog,         \* per term: "pending", "recorded" (line 279) or "failed" (line 281)
  world,           \* what the environment may still do: pagination links shown, cards per page,
                   \* the name texts of the cards (names), and how many appends, reloads
                   \* and navigations may still fail
  crashed,         \* the process died of an uncaught error
  det,             \* the processResults calls, by position in aggregateFiles
  row,             \* the processListing calls, by <<position of the file, row index>>
  input,           \* a text handed to the record constructors (where they are looked at alone)
  record           \* the name fields of the records built from it: <<>> until built

vars == <<main, browser, task, pipe, files, aggregateFiles, termLog, world, crashed,
          det, row, input, record>>

\* most rows a batch file holds: one per name
MaxRows == Cardinality(Keys)

RowTasks == Terms \X (0..(MaxRows - 1))

ReviewFiles == { ReviewFilename(n) : n \in Keys }

\* a scrapeSearchResults call: tries and success as in the source; cards is
\* dataItems.length, idx the position of the for loop and item the raw name of
\* dataItems[idx]; attempts and reloads count the page.goto and page.reload
\* calls; dropped holds the names its failed flushes took out of the batch
IdleTask == [pc |-> "idle", tries |-> 0, success |-> FALSE, cards |-> 0,
             idx |-> 0, item |-> <<>>, attempts |-> 0, reloads |-> 0,
             pageOpen |-> FALSE, dropped |-> {}]

Running(t) == task[t].pc \notin {"idle", "fulfilled", "rejected"}

\* the tasks of the window of term k that starts at index i, of n page urls
Window(k, i, n) ==
  { <<k, i + j>> : j \in { x \in 0..(MAX_SEARCH_DATA_THREADS - 1) : i + x < n } }

\* Promise.all: fulfilled when all are, rejected as soon as one is
PromiseAllSettled(W) ==
  \/ \A t \in W : task[t].pc = "fulfilled"
  \/ \E t \in W : task[t].pc = "rejected"

SinkFaultChoices == IF world.sinkFaults > 0 THEN BOOLEAN ELSE {FALSE}

AfterWrite(w, threw) == IF threw THEN [w EXCEPT !.sinkFaults = @ - 1] ELSE w

\* a navigation or extraction failed: on a closed browser it always does
AfterNavFault(w, b) == IF b = "closed" THEN w ELSE [w EXCEPT !.navFaults = @ - 1]

\* ------------------------------------------------------ scrapeSearchResults
\* the call itself: runs up to `await browser.newPage()`
StartedTask == [IdleTask EXCEPT !.pc = "newPage"]

\* line 138: the page is opened; a closed browser opens none and the call rejects
NewPage(t) ==
  /\ ~crashed /\ task[t].pc = "newPage"
  /\ task' = [task EXCEPT ![t] =
       IF browser = "open"
       THEN [@ EXCEPT !.pageOpen = TRUE, !.pc = "goto"]
       ELSE [@ EXCEPT !.pc = "rejected"]]
  /\ UNCHANGED <<input, record, main, browser, pipe, files, aggregateFiles, termLog, world, crashed, det, row>>

\* the catch block up to `await page.reload(...)`
CaughtBuggy(r) == [r EXCEPT !.pc = "reload", !.cards = 0, !.idx = 0, !.item = <<>>]
Caught(r) == [r EXCEPT !.tries = @ + 1, !.pc = "reload", !.cards = 0, !.idx = 0, !.item = <<>>]

\* the statements after the for loop: success = true, leave the while loop
Succeeded(r) == [r EXCEPT !.success = TRUE, !.pc = "pageClose"]

\* lines 144-155: page.goto and page.evaluate of one attempt.  dataItems is
\* kept as its length (cards) and its current element (item); the name of a
\* card is drawn when the for loop reaches it, which no step can tell from
\* drawing it here.
Goto(t) ==
  /\ ~crashed /\ task[t].pc = "goto"
  /\ \/ /\ browser = "closed" \/ world.navFaults > 0
        /\ task' = [task EXCEPT ![t] = Caught([@ EXCEPT !.attempts = @ + 1])]
        /\ world' = AfterNavFault(world, browser)
     \/ /\ browser = "open"
        /\ \/ task' = [task EXCEPT ![t] = Succeeded([@ EXCEPT !.attempts = @ + 1])]
           \/ \E n \in 1..world.cards, raw \in world.names :
                task' = [task EXCEPT ![t] =
                  [@ EXCEPT !.attempts = @ + 1, !.cards = n, !.idx = 1, !.item = raw,
                            !.pc = "add"]]
        /\ UNCHANGED world
  /\ UNCHANGED <<input, record, main, browser, pipe, files, aggregateFiles, termLog, crashed, det, row>>

\* lines 156-158: one iteration of the for loop, `await dataPipeline.addData(...)`
AddData(t) ==
  /\ ~crashed /\ task[t].pc = "add"
  /\ \E next \in world.names, fault \in SinkFaultChoices :
       LET k == t[1]
           r == task[t]
           name == SearchDataName(r.item)
           a == addData(pipe[k], files[FileOf(k)], name, fault)
       IN /\ pipe' = [pipe EXCEPT ![k] = a.pipe]
          /\ files' = [files EXCEPT ![FileOf(k)] = a.file]
          /\ world' = AfterWrite(world, a.threw)
          /\ task' = [task EXCEPT ![t] =
               IF a.threw
               THEN Caught([@ EXCEPT !.dropped = @ \cup Range(pipe[k].queue) \cup {name}])
               ELSE IF r.idx = r.cards
                    THEN Succeeded(@)
                    ELSE [@ EXCEPT !.idx = @ + 1, !.item = next]]
  /\ UNCHANGED <<input, record, main, browser, aggregateFiles, termLog, crashed, det, row>>

\* where the while loop goes after a caught failure and a reload that returned
AfterReload(r) ==
  IF r.tries <= MAX_RETRIES THEN [r EXCEPT !.pc = "goto"] ELSE [r EXCEPT !.pc = "pageClose"]

\* what is left of a call that ended: its locals are gone; the page it did
\* not close stays open, and what its failed flushes dropped stays dropped
Ended(r, how) ==
  [IdleTask EXCEPT !.pc = how, !.success = r.success, !.pageOpen = r.pageOpen,
                   !.dropped = r.dropped]

\* line 165: `await page.reload(...)` inside the catch block; when it throws,
\* the error leaves scrapeSearchResults at once (page.close is not reached)
Reload(t) ==
  /\ ~crashed /\ task[t].pc = "reload"
  /\ \/ /\ browser = "open"
        /\ task' = [task EXCEPT ![t] = AfterReload([@ EXCEPT !.reloads = @ + 1])]
        /\ UNCHANGED world
     \/ /\ browser = "closed" \/ world.reloadFaults > 0
        /\ task' = [task EXCEPT ![t] = Ended(@, "rejected")]
        /\ world' = IF browser = "closed" THEN world
                    ELSE [world EXCEPT !.reloadFaults = @ - 1]
  /\ UNCHANGED <<input, record, main, browser, pipe, files, aggregateFiles, termLog, crashed, det, row>>

\* lines 169-170: page.close, then the throw when no attempt succeeded
PageClose(t) ==
  /\ ~crashed /\ task[t].pc = "pageClose"
  /\ task' = [task EXCEPT ![t] =
       Ended([@ EXCEPT !.pageOpen = FALSE],
             IF task[t].success THEN "fulfilled" ELSE "rejected")]
  /\ UNCHANGED <<input, record, main, browser, pipe, files, aggregateFiles, termLog, world, crashed, det, row>>

scrapeSearchResults(t) ==
  NewPage(t) \/ Goto(t) \/ AddData(t) \/ Reload(t) \/ PageClose(t)

\* ------------------------------------------------- top level, search phase
\* lines 268-273: the calls of one window, up to `await Promise.all(promises)`
StartWindow(tk, k, i, n) ==
  [t \in SearchTasks |-> IF t \in Window(k, i, n) THEN StartedTask ELSE tk[t]]

\* the for loop over keywordList moves on (or ends: line 285)
NextTerm(m) ==
  IF m.k < m.last
  THEN [m EXCEPT !.pc = "discover", !.k = @ + 1, !.i = 0, !.n = 0]
  ELSE [m EXCEPT !.pc = "browserClose", !.i = 0, !.n = 0]

\* line 265 and findPaginationUrls: a failure of the navigation or of the
\* extraction is caught inside (the first url alone is returned); a failing
\* puppeteer.launch or browser.close rejects and reaches the catch of line 280
FindPaginationUrls ==
  /\ ~crashed /\ main.pc = "discover"
  /\ \/ \E links \in 0..Min(world.links, PAGES - 1) :
          /\ main' = [main EXCEPT !.pc = "awaitAll", !.i = 0, !.n = 1 + links]
          /\ task' = StartWindow(task, main.k, 0, 1 + links)
          /\ UNCHANGED termLog
     \/ /\ main' = NextTerm(main)
        /\ termLog' = [termLog EXCEPT ![main.k] = "failed"]
        /\ UNCHANGED task
  /\ UNCHANGED <<input, record, browser, pipe, files, aggregateFiles, world, crashed, det, row>>

\* lines 273-282: Promise.all settles; the next window starts, or after the
\* last one closePipeline runs and the file name is recorded
WindowSettled ==
  /\ ~crashed /\ main.pc = "awaitAll"
  /\ PromiseAllSettled(Window(main.k, main.i, main.n))
  /\ IF main.i + MAX_SEARCH_DATA_THREADS < main.n
     THEN /\ main' = [main EXCEPT !.i = @ + MAX_SEARCH_DATA_THREADS]
          /\ task' = StartWindow(task, main.k, main.i + MAX_SEARCH_DATA_THREADS, main.n)
          /\ UNCHANGED <<pipe, files, aggregateFiles, termLog, world>>
     ELSE \E fault \in SinkFaultChoices :
            LET k == main.k
                c == closePipeline(pipe[k], files[FileOf(k)], fault)
            IN /\ pipe' = [pipe EXCEPT ![k] = c.pipe]
               /\ files' = [files EXCEPT ![FileOf(k)] = c.file]
               /\ world' = AfterWrite(world, c.threw)
               /\ aggregateFiles' = IF c.threw THEN aggregateFiles
                                    ELSE Append(aggregateFiles, FileOf(k))
               /\ termLog' = [termLog EXCEPT ![k] = IF c.threw THEN "failed" ELSE "recorded"]
               /\ main' = NextTerm(main)
               /\ UNCHANGED task
  /\ UNCHANGED <<input, record, browser, crashed, det, row>>

\* ------------------------------------------------- top level, detail phase
\* the for loop over aggregateFiles moves on (line 288), or the function ends
NextFile(m, n) ==
  IF m.f < n THEN [m EXCEPT !.pc = "launch", !.f = @ + 1] ELSE [m EXCEPT !.pc = "end"]

\* line 285: the shared browser is closed once the loop over the terms ended;
\* then processResults is called for the first file
BrowserClose ==
  /\ ~crashed /\ main.pc = "browserClose"
  /\ browser' = "closed"
  /\ main' = NextFile(main, Len(aggregateFiles))
  /\ UNCHANGED <<input, record, task, pipe, files, aggregateFiles, termLog, world, crashed, det, row>>

IdleDet == [pc |-> "none", browser |-> "none", reader |-> <<>>, i |-> 0]

IdleRow == [pc |-> "idle", tries |-> 0, success |-> FALSE, cards |-> 0, idx |-> 0,
            attempts |-> 0, pageOpen |-> FALSE, rp |-> NewPipeline]

\* the rows of the window that starts at index i
RowWindow(j, i, n) ==
  { <<j, i + x>> : x \in { y \in 0..(MAX_REVIEW_DATA_THREADS - 1) : i + y < n } }

RowsSettled(W) ==
  \/ \A t \in W : row[t].pc = "fulfilled"
  \/ \E t \in W : row[t].pc = "rejected"

\* lines 236-241: the processListing calls of one window, up to `await Promise.all`
StartRowWindow(rw, j, i, n) ==
  [t \in RowTasks |-> IF t \in RowWindow(j, i, n) THEN [IdleRow EXCEPT !.pc = "newPage"]
                      ELSE rw[t]]

\* lines 290 and 225-253: processResults launches its browser, attaches the
\* stream handlers and returns; it does not wait for the 'end' handler, so the
\* loop of line 288 goes on at once.  A failing launch is caught at line 291.
ProcessResults ==
  /\ ~crashed /\ main.pc = "launch"
  /\ \/ det' = [det EXCEPT ![main.f] = [@ EXCEPT !.pc = "reading", !.browser = "open"]]
     \/ det' = [det EXCEPT ![main.f] = [@ EXCEPT !.pc = "failed"]]
  /\ main' = NextFile(main, Len(aggregateFiles))
  /\ UNCHANGED <<input, record, browser, task, pipe, files, aggregateFiles, termLog, world, crashed, row>>

\* line 229: the file cannot be opened.  The 'error' event is emitted by the
\* read stream, which has no 'error' listener (line 250 listens on the parser
\* that pipe() returned): the error is uncaught and ends the process.
ReadError(j) ==
  /\ ~crashed /\ det[j].pc = "reading"
  /\ ~existsSync(files[aggregateFiles[j]])
  /\ crashed' = TRUE
  /\ UNCHANGED <<input, record, main, browser, task, pipe, files, aggregateFiles, termLog, world, det, row>>

\* the rows csv-parser delivers: every line after the first
CsvRows(file) == IF file = <<>> THEN <<>> ELSE Tail(file)

\* lines 231-241 and 247: the file was read; the 'end' handler starts the
\* first window, or closes the browser when there is no row
ReadEnd(j) ==
  /\ ~crashed /\ det[j].pc = "reading"
  /\ existsSync(files[aggregateFiles[j]])
  /\ LET rows == CsvRows(files[aggregateFiles[j]])
     IN IF rows = <<>>
        THEN /\ det' = [det EXCEPT ![j] = [@ EXCEPT !.pc = "done", !.browser = "closed"]]
             /\ UNCHANGED row
        ELSE /\ det' = [det EXCEPT ![j] = [@ EXCEPT !.pc = "awaitAll", !.reader = rows, !.i = 0]]
             /\ row' = StartRowWindow(row, j, 0, Len(rows))
  /\ UNCHANGED <<input, record, main, browser, task, pipe, files, aggregateFiles, termLog, world, crashed>>

\* lines 241-248: Promise.all settles; the next window starts, or after the
\* last one the browser of this file is closed
RowWindowSettled(j) ==
  /\ ~crashed /\ det[j].pc = "awaitAll"
  /\ RowsSettled(RowWindow(j, det[j].i, Len(det[j].reader)))
  /\ IF det[j].i + MAX_REVIEW_DATA_THREADS < Len(det[j].reader)
     THEN /\ det' = [det EXCEPT ![j] = [@ EXCEPT !.i = @ + MAX_REVIEW_DATA_THREADS]]
          /\ row' = StartRowWindow(row, j, det[j].i + MAX_REVIEW_DATA_THREADS,
                                   Len(det[j].reader))
     ELSE /\ det' = [det EXCEPT ![j] = [@ EXCEPT !.pc = "done", !.browser = "closed"]]
          /\ UNCHANGED row
  /\ UNCHANGED <<input, record, main, browser, task, pipe, files, aggregateFiles, termLog, world, crashed>>

\* ------------------------------------------------------------ processListing
\* the review file of row task t
RowFile(t) == ReviewFilename(det[t[1]].reader[t[2] + 1])

\* line 178: the page is opened
RowNewPage(t) ==
  /\ ~crashed /\ row[t].pc = "newPage"
  /\ row' = [row EXCEPT ![t] =
       IF det[t[1]].browser = "open"
       THEN [@ EXCEPT !.pageOpen = TRUE, !.pc = "goto"]
       ELSE [@ EXCEPT !.pc = "rejected"]]
  /\ UNCHANGED <<input, record, main, browser, task, pipe, files, aggregateFiles, termLog, world,
                 crashed, det>>

\* lines 209-218: the catch block; processResults passes MAX_RETRIES as retries.
\* The pipeline of the failed attempt is dropped as it is, without closePipeline.
RowCaught(r) ==
  [r EXCEPT !.tries = @ + 1, !.cards = 0, !.idx = 0,
            !.pc = IF r.tries + 1 >= MAX_RETRIES THEN "pageClose" ELSE "goto"]

\* lines 182-186: page.goto, page.$$ and a new DataPipeline for this attempt
RowGoto(t) ==
  /\ ~crashed /\ row[t].pc = "goto"
  /\ \/ /\ det[t[1]].browser = "closed" \/ world.navFaults > 0
        /\ row' = [row EXCEPT ![t] = RowCaught([@ EXCEPT !.attempts = @ + 1])]
        /\ world' = AfterNavFault(world, det[t[1]].browser)
     \/ /\ det[t[1]].browser = "open"
        /\ \E n \in 0..world.reviewCards :
             row' = [row EXCEPT ![t] =
               [@ EXCEPT !.attempts = @ + 1, !.cards = n, !.idx = 1, !.rp = NewPipeline,
                         !.pc = IF n = 0 THEN "closePipeline" ELSE "card"]]
        /\ UNCHANGED world
  /\ UNCHANGED <<input, record, main, browser, task, pipe, files, aggregateFiles, termLog,
                 crashed, det>>

\* lines 188-204: one review card: its texts are read (any read may throw),
\* a ReviewData is built and given to addData
RowCard(t) ==
  /\ ~crashed /\ row[t].pc = "card"
  /\ \/ /\ det[t[1]].browser = "closed" \/ world.navFaults > 0
        /\ row' = [row EXCEPT ![t] = RowCaught(@)]
        /\ world' = AfterNavFault(world, det[t[1]].browser)
        /\ UNCHANGED files
     \/ \E raw \in RawReviewNames, fault \in SinkFaultChoices :
          LET r == row[t]
              a == addData(r.rp, files[RowFile(t)], ReviewDataName(raw), fault)
              q == [r EXCEPT !.rp = a.pipe]
          IN /\ files' = [files EXCEPT ![RowFile(t)] = a.file]
             /\ world' = AfterWrite(world, a.threw)
             /\ row' = [row EXCEPT ![t] =
                  IF a.threw THEN RowCaught(q)
                  ELSE IF r.idx = r.cards THEN [q EXCEPT !.pc = "closePipeline"]
                       ELSE [q EXCEPT !.idx = @ + 1]]
  /\ UNCHANGED <<input, record, main, browser, task, pipe, aggregateFiles, termLog, crashed, det>>

\* lines 206-207: `await reviewPipeline.closePipeline()` and success = true
RowClosePipeline(t) ==
  /\ ~crashed /\ row[t].pc = "closePipeline"
  /\ \E fault \in SinkFaultChoices :
       LET r == row[t]
           c == closePipeline(r.rp, files[RowFile(t)], fault)
           q == [r EXCEPT !.rp = c.pipe]
       IN /\ files' = [files EXCEPT ![RowFile(t)] = c.file]
          /\ world' = AfterWrite(world, c.threw)
          /\ row' = [row EXCEPT ![t] =
               IF c.threw THEN RowCaught(q)
               ELSE [q EXCEPT !.success = TRUE, !.pc = "pageClose"]]
  /\ UNCHANGED <<input, record, main, browser, task, pipe, aggregateFiles, termLog, crashed, det>>

\* line 221: page.close; processListing returns (it never throws from the loop)
RowPageClose(t) ==
  /\ ~crashed /\ row[t].pc = "pageClose"
  /\ row' = [row EXCEPT ![t] =
       [IdleRow EXCEPT !.pc = "fulfilled", !.success = row[t].success, !.rp = row[t].rp]]
  /\ UNCHANGED <<input, record, main, browser, task, pipe, files, aggregateFiles, termLog, world,
                 crashed, det>>

processListing(t) ==
  RowNewPage(t) \/ RowGoto(t) \/ RowCard(t) \/ RowClosePipeline(t) \/ RowPageClose(t)

processResults(j) == ReadError(j) \/ ReadEnd(j) \/ RowWindowSettled(j)

\* ------------------------------------------------------------ specifications
Program(last, w) ==
  /\ main = [pc |-> "discover", k |-> 1, last |-> last, i |-> 0, n |-> 0, f |-> 0]
  /\ browser = "open"
  /\ task = [t \in SearchTasks |-> IdleTask]
  /\ pipe = [k \in Terms |-> NewPipeline]
  /\ files = [fn \in SearchFiles \cup ReviewFiles |-> <<>>]
  /\ aggregateFiles = <<>>
  /\ termLog = [k \in Terms |-> "pending"]
  /\ world = w
  /\ crashed = FALSE
  /\ det = [j \in Terms |-> IdleDet]
  /\ row = [t \in RowTasks |-> IdleRow]

\* no record was built
NoRecord == [search |-> <<>>, review |-> <<>>]

Start(last, w) == Program(last, w) /\ input = <<>> /\ record = NoRecord

World(links, cards, reviewCards, sinkFaults, reloadFaults, navFaults) ==
  [links |-> links, cards |-> cards, reviewCards |-> reviewCards,
   sinkFaults |-> sinkFaults, reloadFaults |-> reloadFaults, navFaults |-> navFaults,
   names |-> RawNames]

\* the search crawl of one term, the environment free within the bounds
InitSearch ==
  Start(1, World(MaxLinks, MaxCards, MaxReviewCards, MaxSinkFaults, MaxReloadFaults,
                 MaxNavFaults))

\* the search crawl of one term where only navigations and extractions fail
InitWindows ==
  Start(1, World(MaxLinksWindows, MaxCards, MaxReviewCards, 0, 0, MaxNavFaults))

\* the whole program on one term, no reload failing
Init ==
  Start(1, World(MaxLinks, MaxCards, MaxReviewCards, MaxSinkFaults, 0, MaxNavFaults))

\* the whole program on two terms of one result page each, with at most one
\* card a page, one failing append and one failing navigation
InitTerms ==
  Start(2, World(0, 1, 1, 1, 0, 1))

NextSearch ==
  \/ FindPaginationUrls
  \/ WindowSettled
  \/ BrowserClose
  \/ \E t \in SearchTasks : scrapeSearchResults(t)

Next ==
  \/ FindPaginationUrls
  \/ WindowSettled
  \/ BrowserClose
  \/ ProcessResults
  \/ \E t \in SearchTasks : scrapeSearchResults(t)
  \/ \E j \in Terms : processResults(j)
  \/ \E t \in RowTasks : processListing(t)

Spec == Init /\ [][Next]_vars
SpecSearch == InitSearch /\ [][NextSearch]_vars
SpecWindows == InitWindows /\ [][NextSearch]_vars
SpecTerms == InitTerms /\ [][Next]_vars

\* -------------------------------------------------------------------- claims
NoDup(q) == \A i, j \in 1..Len(q) : i # j => q[i] # q[j]

\* what the pipeline of term k holds or has written: the data rows of its
\* file followed by its batch
Stored(k) == CsvRows(files[FileOf(k)]) \o pipe[k].queue

TasksOf(k) == { t \in SearchTasks : t[1] = k }

\* the window a task belongs to
WindowOf(t) == t[2] \div MAX_SEARCH_DATA_THREADS

\* C1: over the lifetime of a term's pipeline every name is held in the batch
\* or written to the file at most once, under any interleaving of the addData
\* calls of the window's tasks, and every name held or written stays in
\* namesSeen (no flush or close takes a name out of it).
C1_KeyAtMostOnce ==
  \A k \in Terms : NoDup(Stored(k)) /\ Range(Stored(k)) \subseteq pipe[k].seen

\* C1 witness: a duplicate was dropped after a flush had written rows, with
\* two tasks of the term running that both have called addData (one still in
\* its for loop, the other just through it).
C1_Witness ==
  \E k \in Terms :
    /\ pipe[k].warned
    /\ Len(files[FileOf(k)]) > QueueLimit
    /\ \E t1, t2 \in TasksOf(k) :
         /\ t1 # t2
         /\ task[t1].pc = "add" /\ task[t1].idx > 1
         /\ task[t2].pc = "pageClose" /\ task[t2].success /\ task[t2].cards > 0

\* C2: closePipeline of a term runs only after every fetch task of the term
\* has settled, and from then on the batch is empty and every accepted name is
\* in the term's file.
C2_CloseAfterAllSettled ==
  \A k \in Terms :
    termLog[k] = "recorded" =>
      /\ \A t \in TasksOf(k) : ~Running(t)
      /\ pipe[k].queue = <<>>
      /\ pipe[k].seen \subseteq Range(CsvRows(files[FileOf(k)]))

\* C3: no task of a later window of a term is started while a task of an
\* earlier window of that term is still running.
C3_WindowsSequenced ==
  \A t1, t2 \in SearchTasks :
    (t1[1] = t2[1] /\ WindowOf(t1) < WindowOf(t2) /\ Running(t1)) => task[t2].pc = "idle"

\* C4: the shared browser is not closed while a search task is still running
\* (a sibling of a failed task keeps a live browser until it settles).
C4_BrowserLiveForSiblings ==
  browser = "closed" => \A t \in SearchTasks : ~Running(t)

\* C5: scrapeSearchResults makes at most MAX_RETRIES + 1 attempts and raises
\* only after exactly MAX_RETRIES + 1 of them, whatever the reload does.
C5_RaisesAfterAllAttempts ==
  [][\A t \in SearchTasks :
       /\ task'[t].attempts <= MAX_RETRIES + 1
       /\ (task[t].pc \notin {"newPage", "rejected"} /\ task'[t].pc = "rejected")
            => task[t].attempts = MAX_RETRIES + 1]_vars

C7_NoSilentLoss ==
  \A t \in SearchTasks :
    task[t].pc = "fulfilled" =>
      task[t].dropped \subseteq Range(Stored(t[1]))

\* the recorded files, by position
FilePositions == 1..Len(aggregateFiles)

\* the detail crawl of the file at position j is over
DetailOver(j) == det[j].pc \in {"done", "failed"}

AllTermsProcessed == \A k \in 1..main.last : termLog[k] # "pending"

\* C8: when processListing returns from a row whose attempts were exhausted,
\* no review that addData accepted is left in the batch of its pipeline.
C8_ExhaustedRowFlushed ==
  \A t \in RowTasks :
    (row[t].pc = "fulfilled" /\ ~row[t].success) => row[t].rp.queue = <<>>

\* C9: the detail phase starts after every term was processed, and the detail
\* crawl of a file is started only when the crawls of the files before it are
\* over (all rows processed, browser closed).
C9_FilesOneAfterAnother ==
  /\ main.pc \in {"launch", "end"} => AllTermsProcessed
  /\ \A j1, j2 \in FilePositions :
       (j1 < j2 /\ det[j2].pc # "none") => DetailOver(j1)

\* C10: after the loop over the terms every term was processed, a file name
\* is recorded exactly for the terms whose closePipeline returned, and a
\* failure in the crawl of one file leaves no other file unprocessed.
C10_FailuresStayLocal ==
  /\ main.pc \in {"browserClose", "launch", "end"} => AllTermsProcessed
  /\ \A k \in 1..main.last :
       (\E j \in FilePositions : aggregateFiles[j] = FileOf(k)) <=> termLog[k] = "recorded"
  /\ crashed =>
       \A j \in FilePositions :
         \/ DetailOver(j)
         \/ det[j].pc = "reading" /\ ~existsSync(files[aggregateFiles[j]])

\* the event loop runs every callback that is ready: no step that stays
\* possible is put off for ever
Fairness ==
  /\ WF_vars(FindPaginationUrls \/ WindowSettled \/ BrowserClose \/ ProcessResults)
  /\ \A t \in SearchTasks : WF_vars(scrapeSearchResults(t))
  /\ \A j \in Terms : WF_vars(processResults(j))
  /\ \A t \in RowTasks : WF_vars(processListing(t))

\* the whole program on two terms, every ready step eventually taken
FairSpecTerms == InitTerms /\ [][Next]_vars /\ Fairness

\* every browser the program launched is closed
AllBrowsersClosed ==
  /\ browser = "closed"
  /\ \A j \in Terms : det[j].browser # "open"

\* C11: with every step eventually completing or failing, the program
\* eventually reaches its end state: the top-level function returned, every
\* term and every recorded batch file was processed, every search and row
\* task settled, and every launched browser is closed.
C11_EventuallyEnds ==
  <>( /\ ~crashed
      /\ main.pc = "end"
      /\ AllTermsProcessed
      /\ \A j \in FilePositions : DetailOver(j)
      /\ \A t \in SearchTasks : ~Running(t)
      /\ AllBrowsersClosed )

\* no write of the pipeline of term k has failed, and it was not closed yet
Undisturbed(k) ==
  /\ termLog[k] = "pending"
  /\ \A t \in TasksOf(k) : task[t].dropped = {}

\* C12: between any two steps the batch of a pipeline holds fewer records
\* than the threshold; and as long as no write failed and the pipeline was
\* not closed, with n names accepted the batch holds n mod T of them and the
\* file holds the others (nothing below the threshold, exactly T at the T-th).
C12_BatchBelowThreshold ==
  \A k \in Terms :
    /\ Len(pipe[k].queue) < QueueLimit
    /\ Undisturbed(k) =>
         LET n == Cardinality(pipe[k].seen)
         IN /\ Len(pipe[k].queue) = n % QueueLimit
            /\ Len(CsvRows(files[FileOf(k)])) = n - (n % QueueLimit)
            /\ Range(Stored(k)) = pipe[k].seen

\* C12 witness: the threshold was just reached by addData calls of two tasks
\* that are both in their for loops: the batch is empty and the file holds
\* the header and T rows.
C12_Witness ==
  \E k \in Terms :
    /\ Undisturbed(k)
    /\ Cardinality(pipe[k].seen) = QueueLimit
    /\ pipe[k].queue = <<>>
    /\ Len(files[FileOf(k)]) = QueueLimit + 1
    /\ \E t1, t2 \in TasksOf(k) :
         /\ t1 # t2
         /\ task[t1].pc = "add" /\ task[t1].idx = 2
         /\ task[t2].pc = "add" /\ task[t2].idx = 2

\* C13: a closePipeline that returns has appended exactly the records of the
\* batch to the file, once and in order, and left the batch empty; on an
\* empty batch it leaves the file as it was (no header, no file created); and
\* a second closePipeline, or a flush, right after it changes nothing.
C13_CloseWritesOnce ==
  [][\A k \in Terms :
       (termLog[k] = "pending" /\ termLog'[k] = "recorded") =>
         LET F == FileOf(k)
             again == closePipeline(pipe'[k], files'[F], FALSE)
             flush == saveToCsv(pipe'[k].queue, files'[F], FALSE)
         IN /\ pipe'[k].queue = <<>>
            /\ CsvRows(files'[F]) = CsvRows(files[F]) \o pipe[k].queue
            /\ pipe[k].queue = <<>> => files'[F] = files[F]
            /\ again.file = files'[F] /\ again.pipe = pipe'[k] /\ ~again.threw
            /\ flush.file = files'[F] /\ ~flush.threw]_vars

\* C13 witness: closePipeline of a term has returned and the file holds a
\* number of rows that is no multiple of the threshold: the rest below the
\* threshold was written by closePipeline.
C13_Witness ==
  \E k \in Terms :
    /\ termLog[k] = "recorded"
    /\ Len(CsvRows(files[FileOf(k)])) % QueueLimit # 0

\* the name column of the row that task t crawls
RowName(t) == det[t[1]].reader[t[2] + 1]

\* the crawl of the row succeeded and wrote reviews
RowWrote(t) == row[t].success /\ row[t].rp.seen # {}

\* C14: two rows of a batch file that carry different names and whose crawls
\* succeeded have written their reviews to different files.
C14_OneFilePerName ==
  \A t1, t2 \in RowTasks :
    (t1[1] = t2[1] /\ RowWrote(t1) /\ RowWrote(t2) /\ RowName(t1) # RowName(t2))
      => RowFile(t1) # RowFile(t2)

\* ------------------------------------------------------- record construction
\* the characters of a text: white space and two others
Chars == {" ", "x", "y"}

\* the texts a page can hand to a constructor; a missing one arrives as ""
\* (the default of the parameter)
Texts == UNION { [1..n -> Chars] : n \in 0..MaxTextLen }

\* lines 43-44: new SearchData(name, ...)
NewSearchData ==
  /\ record.search = <<>>
  /\ record' = [record EXCEPT !.search = <<SearchDataName(input)>>]
  /\ UNCHANGED <<input, main, browser, task, pipe, files, aggregateFiles, termLog, world,
                 crashed, det, row>>

\* lines 53-73: new ReviewData(name, ...)
NewReviewData ==
  /\ record.review = <<>>
  /\ record' = [record EXCEPT !.review = <<ReviewDataName(input)>>]
  /\ UNCHANGED <<input, main, browser, task, pipe, files, aggregateFiles, termLog, world,
                 crashed, det, row>>

\* the two constructors applied to one text, in any order
InitRecords ==
  /\ Program(1, World(0, 0, 0, 0, 0, 0))
  /\ input \in Texts
  /\ record = NoRecord

NextRecords == NewSearchData \/ NewReviewData

SpecRecords == InitRecords /\ [][NextRecords]_vars

\* C15: the name field of a constructed SearchData and of a constructed
\* ReviewData is the placeholder when the text is missing, empty or white
\* space only, and the trimmed text otherwise; so it is never empty and has
\* no white space at either end.
C15_SameNormalisation ==
  \A f \in {"search", "review"} :
    record[f] # <<>> =>
      LET n == record[f][1]
      IN /\ n = (IF Trim(input) = <<>> THEN NoName ELSE Trim(input))
         /\ n # <<>>
         /\ Head(n) # " " /\ n[Len(n)] # " "

\* the search crawl of one term with up to two full windows of pages of at
\* most one card, where only navigations and extractions fail
InitFanOut ==
  Start(1, World(MaxLinksFanOut, 1, 1, 0, 0, MaxNavFaults))

SpecFanOut == InitFanOut /\ [][NextSearch]_vars

\* the search tasks that were started and have not settled
ActiveSearchTasks == { t \in SearchTasks : Running(t) }

\* the row tasks that were started and have not settled
ActiveRowTasks == { t \in RowTasks : row[t].pc \notin {"idle", "fulfilled", "rejected"} }

\* C16: at every moment at most MAX_SEARCH_DATA_THREADS search tasks and at
\* most MAX_REVIEW_DATA_THREADS row tasks are active.
C16_FanOutBounded ==
  /\ Cardinality(ActiveSearchTasks) <= MAX_SEARCH_DATA_THREADS
  /\ Cardinality(ActiveRowTasks) <= MAX_REVIEW_DATA_THREADS

\* C17: no task has settled while the page it opened is still open.
C17_PageClosedBeforeSettle ==
  /\ \A t \in SearchTasks : task[t].pc \in {"fulfilled", "rejected"} => ~task[t].pageOpen
  /\ \A t \in RowTasks : row[t].pc \in {"fulfilled", "rejected"} => ~row[t].pageOpen

\* C18: the crawl of a row does nothing after a successful attempt but close
\* its page, and a row that leaves the retry loop without success has been
\* attempted exactly three times.
C18_RowAttempts ==
  \A t \in RowTasks :
    /\ row[t].success => row[t].pc \in {"pageClose", "fulfilled"}
    /\ (row[t].pc = "pageClose" /\ ~row[t].success) => row[t].attempts = DefaultRetries

\* the whole program on one term of one result page with at most one card
\* (one row), a listing page of up to three review cards, and one failing
\* navigation or extraction
InitReviews ==
  Start(1, World(0, 1, MaxReviewCardsRetry, 0, 0, 1))

SpecReviews == InitReviews /\ [][Next]_vars

\* the row task was started
RowStarted(t) == row[t].pc # "idle"

\* no other row writes to the review file of row t
OnlyWriter(t) ==
  \A u \in RowTasks : (u # t /\ RowStarted(u)) => RowFile(u) # RowFile(t)

\* C19: the review file of a row, written by the attempts of that row alone,
\* never holds two data rows with the same reviewer name.
C19_NoRepeatedReviewer ==
  \A t \in RowTasks :
    (RowStarted(t) /\ OnlyWriter(t)) => NoDup(CsvRows(files[RowFile(t)]))

\* the search crawl of one term of two result pages whose cards carry up to
\* four different names (two flushes at the threshold), with one failing append
InitHeader ==
  Start(1, [World(1, MaxCards, 0, 1, 0, 0) EXCEPT !.names = MoreRawNames])

SpecHeader == InitHeader /\ [][NextSearch]_vars

\* the positions of the header line in a file
HeaderPositions(file) == { i \in 1..Len(file) : file[i] = HeaderLine }

\* C20: a file that was absent at the start and has been written holds the
\* header line exactly once, as its first line, whatever the number of writes
\* and whichever tasks' addData calls (or closePipeline) made them.
C20_OneHeaderFirst ==
  \A F \in DOMAIN files :
    existsSync(files[F]) => HeaderPositions(files[F]) = {1}

\* C20 witness: the file of a term was written by two flushes at the
\* threshold (the pipeline is not closed yet), with two tasks of the term
\* both through their cards.
C20_Witness ==
  \E k \in Terms :
    /\ termLog[k] = "pending"
    /\ Len(files[FileOf(k)]) = 2 * QueueLimit + 1
    /\ \E t1, t2 \in TasksOf(k) :
         /\ t1 # t2
         /\ task[t1].pc = "pageClose" /\ task[t1].success /\ task[t1].cards > 0
         /\ task[t2].pc = "pageClose" /\ task[t2].success /\ task[t2].cards > 0
====
